---------------------------- MODULE Spec2Model ----------------------------
(***************************************************************************)
(* whisk: a capacity-one async channel (src/src/lib.rs).                   *)
(*                                                                         *)
(* A Channel owns one spin cell around a Locked record: the value in       *)
(* transit (Option<T>) and two waker registries (Wake), one for senders    *)
(* and one for receivers.  Tasks poll send futures (Message::poll) and     *)
(* receive futures (Channel::poll_internal); every poll runs its closure   *)
(* inside Spin::with.  A waker is modelled by the identity of the task it  *)
(* schedules; invoking it marks that task as due for another poll.         *)
(*                                                                         *)
(* An Option<X> is a sequence of length at most one: << >> is None and     *)
(* <<x>> is Some(x).                                                       *)
(***************************************************************************)
EXTENDS Integers, Sequences, FiniteSets, TLC

VARIABLES
    reg,      \* a Wake registry on its own, for the calls made on it directly
    call,     \* the last call made on reg, and what it invoked
    scen,     \* the driver program that is running (fixed by Init)
    chan,     \* chan[c]: the Locked record of channel c (recv, send, data)
    flag,     \* flag[c]: the AtomicBool of channel c's spin cell
    pc,       \* pc[t]: "idle"; "spin" while t loops on the compare-exchange of
              \* Spin::with; "crit" while t runs the closure
    ip,       \* ip[t]: index of the operation task t is at in its program
    woken,    \* woken[t]: t's waker was invoked (or t has not been polled yet)
    polled,   \* polled[t]: t's current operation reported Pending at least once
    ret,      \* what the last completed poll returned
    sent,     \* sent[c]: values of admitted sends on c, in admit order
    rcvd,     \* rcvd[c]: values returned by receives on c, in completion order
    got,      \* got[t]: values task t received, in order
    dropped,  \* futures dropped before completion: <<task, index, was polled>>
    stale     \* wakers left registered by a dropped future and not yet invoked

vars == <<reg, call, scen, chan, flag, pc, ip, woken, polled, ret, sent, rcvd, got,
          dropped, stale>>

-----------------------------------------------------------------------------
(* Bounds of the driver programs. *)

\* messages exchanged by the one-sender / one-receiver driver
NMsgs == 2
\* waiters of one direction in the fan-in and multi-producer drivers
NWait == 3
\* channels that exist
NChans == 2
\* waiter identifiers and wakers of the calls made on a registry directly
NIds == 3
NWakers == 2
\* Add commands the tasker of the actor driver issues before it stops the worker
NAdds == 2
\* items the producer of the stream driver sends before it ends the stream
NItems == 2

Chans == 1..NChans
NTasks == IF NWait + 1 > 3 THEN NWait + 1 ELSE 3
Tasks == 1..NTasks

None == << >>
Some(x) == <<x>>

-----------------------------------------------------------------------------
(* Wake: the waker registry (lib.rs 150-192). *)

\* Wake::default()
WakeDefault == [wake |-> None, chan |-> 0, list |-> << >>]

\* position of the first list entry registered under identifier id, 0 if none
ListFind(list, id) ==
    IF \E i \in 1..Len(list) : list[i][1] = id
    THEN CHOOSE i \in 1..Len(list) :
            /\ list[i][1] = id
            /\ \A j \in 1..(i - 1) : list[j][1] # id
    ELSE 0

\* a register that keeps the waker the fast slot already holds
RegisterKeepOld(w, id, waker) ==
    IF w.wake # None
    THEN IF w.chan = id
         THEN w
         ELSE [w EXCEPT !.wake = None,
                        !.list = @ \o << <<w.chan, w.wake[1]>>, <<id, waker>> >>]
    ELSE IF w.list = << >>
         THEN [w EXCEPT !.chan = id, !.wake = Some(waker)]
         ELSE IF ListFind(w.list, id) # 0
              THEN [w EXCEPT !.list[ListFind(w.list, id)] = <<id, waker>>]
              ELSE [w EXCEPT !.list = Append(@, <<id, waker>>)]

\* a register that always pushes onto a non-empty list, without the find
RegisterNoFind(w, id, waker) ==
    IF w.wake # None
    THEN IF w.chan = id
         THEN [w EXCEPT !.chan = id, !.wake = Some(waker)]
         ELSE [w EXCEPT !.wake = None,
                        !.list = @ \o << <<w.chan, w.wake[1]>>, <<id, waker>> >>]
    ELSE IF w.list = << >>
         THEN [w EXCEPT !.chan = id, !.wake = Some(waker)]
         ELSE [w EXCEPT !.list = Append(@, <<id, waker>>)]

\* a register that leaves the fast slot's waker where it is and spills only
\* the new one
RegisterSpillNew(w, id, waker) ==
    IF w.wake # None
    THEN IF w.chan = id
         THEN [w EXCEPT !.chan = id, !.wake = Some(waker)]
         ELSE [w EXCEPT !.list = Append(@, <<id, waker>>)]
    ELSE IF w.list = << >>
         THEN [w EXCEPT !.chan = id, !.wake = Some(waker)]
         ELSE IF ListFind(w.list, id) # 0
              THEN [w EXCEPT !.list[ListFind(w.list, id)] = <<id, waker>>]
              ELSE [w EXCEPT !.list = Append(@, <<id, waker>>)]

\* Wake::register(chan, waker): the registry afterwards
Register(w, id, waker) ==
    IF w.wake # None
    THEN IF w.chan = id
         THEN [w EXCEPT !.chan = id, !.wake = Some(waker)]
         ELSE [w EXCEPT !.wake = None,
                        !.list = @ \o << <<w.chan, w.wake[1]>>, <<id, waker>> >>]
    ELSE IF w.list = << >>
         THEN [w EXCEPT !.chan = id, !.wake = Some(waker)]
         ELSE IF ListFind(w.list, id) # 0
              THEN [w EXCEPT !.list[ListFind(w.list, id)] = <<id, waker>>]
              ELSE [w EXCEPT !.list = Append(@, <<id, waker>>)]

\* a wake that drains the list and forgets the fast slot
WakeInvokedListOnly(w) == [i \in 1..Len(w.list) |-> w.list[i][2]]

\* Wake::wake(): the wakers it invokes, in order
WakeInvoked(w) ==
    IF w.wake # None
    THEN <<w.wake[1]>>
    ELSE [i \in 1..Len(w.list) |-> w.list[i][2]]

\* a wake that invokes the wakers through references and leaves them in place
WakeAfterKeep(w) == w

\* a wake that iterates over the list without draining it
WakeAfterNoDrain(w) == [w EXCEPT !.wake = None]

\* Wake::wake(): the registry afterwards
WakeAfter(w) ==
    IF w.wake # None
    THEN [w EXCEPT !.wake = None]
    ELSE [w EXCEPT !.list = << >>]

\* the (identifier, waker) entries a registry holds, fast slot first
Entries(w) ==
    (IF w.wake # None THEN << <<w.chan, w.wake[1]>> >> ELSE << >>) \o w.list

\* every waker a registry holds (fast slot and list)
Held(w) ==
    {w.wake[i] : i \in 1..Len(w.wake)} \cup {w.list[i][2] : i \in 1..Len(w.list)}

Range(s) == {s[i] : i \in 1..Len(s)}

-----------------------------------------------------------------------------
(* Locked and Channel (lib.rs 194-268). *)

\* Locked::default()
LockedDefault == [recv |-> WakeDefault, send |-> WakeDefault, data |-> None]

\* Channel::uid(): the channel's address as an integer; distinct channels
\* have distinct addresses, every poll on one channel gets the same one
Uid(c) == c

\* a waiter identifier of its own for every task
WaiterIdPerTask(c, t) == NChans + t

\* the identifier a poll of task t registers its waker under: self.uid()
\* (lib.rs 278) and this.0.uid() (lib.rs 351), whoever polls
WaiterId(c, t) == Uid(c)


-----------------------------------------------------------------------------
(* Driver programs: what each task awaits, in order.  An operation is one  *)
(* call of Channel::send (lib.rs 253-255) or Channel::recv (lib.rs         *)
(* 259-261); drop = TRUE marks a future its owner may drop before it       *)
(* completes.                                                              *)

Snd(c, v) == [k |-> "send", c |-> c, v |-> v, drop |-> FALSE]
SndD(c, v) == [k |-> "send", c |-> c, v |-> v, drop |-> TRUE]
Rcv(c) == [k |-> "recv", c |-> c, v |-> 0, drop |-> FALSE]
RcvD(c) == [k |-> "recv", c |-> c, v |-> 0, drop |-> TRUE]

\* one poll_next of the channel taken as a futures_core::Stream (lib.rs 314-324)
Nxt(c) == [k |-> "next", c |-> c, v |-> 0, drop |-> FALSE]

\* the worker's answer to the command it received last (lib.rs 31)
Rpl == [k |-> "reply", c |-> 0, v |-> 0, drop |-> FALSE]

\* Cmd::Add(a, b, reply) (lib.rs 22-25), reply being a channel
Add(a, b, reply) == <<a, b, reply>>

\* the operands of the tasker's i-th Add command; the first is Add(43, 400)
\* (lib.rs 53)
AddArgs(i) == <<42 + i, 400>>

\* drivers whose channels carry Option values
OptScenarios == {"actor", "stream"}

Scenarios ==
    {"pair", "fanin", "multiprod", "cancelsend", "cancelrecv", "sendonly",
     "mixed", "echo"}

\* the program of task t under driver s
Prog(s, t) ==
    CASE s = "pair" ->
            IF t = 1 THEN [i \in 1..NMsgs |-> Snd(1, i)]
            ELSE IF t = 2 THEN [i \in 1..NMsgs |-> Rcv(1)]
            ELSE << >>
      [] s = "fanin" ->
            IF t = 1 THEN [i \in 1..NWait |-> Snd(1, i)]
            ELSE IF t <= NWait + 1 THEN <<Rcv(1)>>
            ELSE << >>
      [] s = "multiprod" ->
            IF t <= NWait THEN <<Snd(1, t)>>
            ELSE IF t = NWait + 1 THEN [i \in 1..NWait |-> Rcv(1)]
            ELSE << >>
      [] s = "cancelsend" ->
            IF t = 1 THEN <<Snd(1, 8), SndD(1, 9)>>
            ELSE IF t = 2 THEN <<Snd(1, 10)>>
            ELSE IF t = 3 THEN <<Rcv(1), Rcv(1)>>
            ELSE << >>
      [] s = "cancelrecv" ->
            IF t = 1 THEN <<RcvD(1)>>
            ELSE IF t = 2 THEN <<Snd(1, 10)>>
            ELSE IF t = 3 THEN <<Rcv(1)>>
            ELSE << >>
      [] s = "sendonly" ->
            IF t = 1 THEN <<Snd(1, 1), Snd(1, 2)>>
            ELSE IF t = 2 THEN <<Snd(1, 3)>>
            ELSE << >>
      [] s = "mixed" ->
            IF t = 1 THEN <<SndD(1, 1), Rcv(1)>>
            ELSE IF t = 2 THEN <<RcvD(1), SndD(1, 2)>>
            ELSE IF t = 3 THEN <<Snd(1, 3), RcvD(1)>>
            ELSE << >>
      [] s = "echo" ->
            IF t = 1 THEN <<Snd(1, 5), Rcv(2)>>
            ELSE IF t = 2 THEN <<Rcv(1), Snd(2, 6)>>
            ELSE << >>
      [] s = "actor" ->
            \* tasker_main (lib.rs 38-65) and the body of worker_main's loop
            \* (lib.rs 27-36); channel 1 carries Option<Cmd>, channel 2 u32
            IF t = 1
            THEN [i \in 1..(2 * NAdds) |->
                    IF i % 2 = 1
                    THEN Snd(1, Some(Add(AddArgs((i + 1) \div 2)[1],
                                         AddArgs((i + 1) \div 2)[2], 2)))
                    ELSE Rcv(2)] \o <<Snd(1, None)>>
            ELSE IF t = 2 THEN <<Rcv(1), Rpl>>
            ELSE << >>
      [] s = "registry" -> << >>
      [] s = "stream" ->
            \* channel 1 carries Option<u32> and is read as a stream
            IF t = 1 THEN [i \in 1..NItems |-> Snd(1, Some(i))] \o <<Snd(1, None)>>
            ELSE IF t = 2 THEN <<Nxt(1)>>
            ELSE << >>

\* tasks that must have finished before task t starts under driver s
Gate(s, t) ==
    IF s \in {"cancelsend", "cancelrecv"} /\ t \in {2, 3} THEN {1} ELSE {}

\* task t runs its program as the body of `while let Some(x) = <first
\* operation>.await { ... }` (lib.rs 28): it leaves the loop when the first
\* operation yields None
Loops(s, t) == s \in OptScenarios /\ t = 2

-----------------------------------------------------------------------------
(* Task state. *)

Finished(t) == ip[t] > Len(Prog(scen, t))

\* Cmd::Add(a, b, s) => s.send(a + b).await (lib.rs 31); the drivers' operands
\* stay far below the width of u32, so the sum never wraps
ReplyOp(cmd) ==
    [k |-> "send", c |-> cmd[3], v |-> cmd[1] + cmd[2], drop |-> FALSE]

\* the operation task t is at; a reply is worked out from the command (a
\* Some) that the task received last
Op(t) ==
    LET raw == Prog(scen, t)[ip[t]]
    IN  IF raw.k = "reply" THEN ReplyOp(got[t][Len(got[t])][1]) ELSE raw

\* the position of task t after its current operation completed with v
NextIp(t, v) ==
    IF Loops(scen, t)
    THEN IF ip[t] = 1 /\ v = None THEN Len(Prog(scen, t)) + 1
         ELSE IF ip[t] = Len(Prog(scen, t)) THEN 1
         ELSE ip[t] + 1
    ELSE ip[t] + 1
GateOpen(t) == \A u \in Gate(scen, t) : Finished(u)

\* the Cell<Option<T>> of the Message that task t is sending (lib.rs 254, 327)
CellOf(t) == IF Op(t).k = "send" THEN Some(Op(t).v) ELSE None

\* t's current operation reported Pending and t's waker was not invoked since
Parked(t) == ~Finished(t) /\ pc[t] = "idle" /\ polled[t] /\ ~woken[t]

\* the registry of channel c for direction k
Reg(c, k) == IF k = "send" THEN chan[c].send ELSE chan[c].recv

NoRet == [t |-> 0, k |-> "none", c |-> 0, r |-> "none", v |-> None]

Ids == 1..NIds
Wakers == 1..NWakers

\* no call made yet
NoCall ==
    [op |-> "none", id |-> 0, waker |-> 0, fired |-> << >>, present |-> FALSE,
     fast |-> FALSE]

\* new channels (Channel::new) and tasks that have not been polled, under one
\* of the drivers in S
Start(S) ==
    /\ reg = WakeDefault
    /\ call = NoCall
    /\ scen \in S
    /\ chan = [c \in Chans |-> LockedDefault]
    /\ flag = [c \in Chans |-> FALSE]
    /\ pc = [t \in Tasks |-> "idle"]
    /\ ip = [t \in Tasks |-> 1]
    /\ woken = [t \in Tasks |-> Prog(scen, t) # << >>]
    /\ polled = [t \in Tasks |-> FALSE]
    /\ ret = NoRet
    /\ sent = [c \in Chans |-> << >>]
    /\ rcvd = [c \in Chans |-> << >>]
    /\ got = [t \in Tasks |-> << >>]
    /\ dropped = {}
    /\ stale = {}

Init == Start(Scenarios)

\* a registry on its own: no task runs
RegInit == Start({"registry"})

OptInit == Start(OptScenarios)

-----------------------------------------------------------------------------
(* A poll begins: the executor has cleared the task's wake-up notification *)
(* and the poll calls Spin::with (lib.rs 273, 345).                        *)
Enter(t) ==
    /\ ~Finished(t)
    /\ GateOpen(t)
    /\ pc[t] = "idle"
    /\ pc' = [pc EXCEPT ![t] = "spin"]
    /\ woken' = [woken EXCEPT ![t] = FALSE]
    /\ UNCHANGED <<reg, call, scen, chan, flag, ip, polled, ret, sent, rcvd, got, dropped,
                   stale>>

\* a poll of a task whose waker was invoked (or its first poll)
PollWoken(t) == woken[t] /\ Enter(t)

\* a poll nobody asked for (the Future contract allows it)
PollSpurious(t) == ~woken[t] /\ Enter(t)

\* a lock that stores true without comparing
CasBlind(f) == TRUE

\* compare_exchange_weak(false, true) can succeed (lib.rs 132-135)
CasSucceeds(f) == f = FALSE

(* Spin::with (lib.rs 131-140): the compare-exchange succeeds, the flag is *)
(* set and the task enters the critical section.                           *)
Acquire(t) ==
    /\ pc[t] = "spin"
    /\ CasSucceeds(flag[Op(t).c])
    /\ flag' = [flag EXCEPT ![Op(t).c] = TRUE]
    /\ pc' = [pc EXCEPT ![t] = "crit"]
    /\ UNCHANGED <<reg, call, scen, chan, ip, woken, polled, ret, sent, rcvd, got, dropped,
                   stale>>

(* Spin::with (lib.rs 132-138): the compare-exchange fails, because the    *)
(* flag is set or spuriously, and the loop goes round again.               *)
SpinFail(t) ==
    /\ pc[t] = "spin"
    /\ UNCHANGED vars

\* a Spin::with that returns without the store
ReleaseSkipped(c) == flag

\* self.flag.store(false, Release) after the closure (lib.rs 141)
Release(c) == [flag EXCEPT ![c] = FALSE]

\* a send poll that never looks at the slot
SendAdmitsAlways(L) == TRUE

\* Message::poll's test of the slot (lib.rs 346)
SendAdmits(L) == L.data = None

\* a send poll that forgets to move the value into the slot
SendStoreNothing(L, cell) == L

\* Message::poll moves the Message's cell into the slot (lib.rs 347)
SendStore(L, cell) == [L EXCEPT !.data = cell]

\* poll_internal's test of the slot (lib.rs 274)
RecvAdmits(L) == L.data # None

\* a receive that copies the value and leaves it in the slot
RecvPeek(L) == L

\* poll_internal takes the value out of the slot (lib.rs 274)
RecvTake(L) == [L EXCEPT !.data = None]

\* a waker whose wake() does nothing
InvokeNothing(w, inv) == w

\* woken after the wakers in the sequence inv were invoked
Invoke(w, inv) == [x \in Tasks |-> IF x \in Range(inv) THEN TRUE ELSE w[x]]

\* the task moves on to its next operation, if it has one (it is still
\* being polled); v is what the operation completed with
Advance(t, w, v) == [w EXCEPT ![t] = (NextIp(t, v) <= Len(Prog(scen, t))) \/ @]

\* a stream adapter that reports the end of the stream whatever it received
StreamItemEnd(msg) == None

\* Stream::poll_next returns what poll_internal returns: the message, an
\* Option<T>, is the stream's Option<Item> (lib.rs 318-323)
StreamItem(msg) == msg

\* what the poll of task t hands to the task when it takes msg out of the slot
Deliver(t, msg) == IF Op(t).k = "next" THEN StreamItem(msg) ELSE msg

\* stale wakers that remain after the wakers in inv of registry (c, k) ran
Unstale(c, k, inv) == {e \in stale : ~(e[1] = c /\ e[2] = k /\ e[3] \in Range(inv))}

(* Message::poll (lib.rs 342-355): the closure and the release of the flag *)
SendPoll(t) ==
    LET c == Op(t).c
        L == chan[c]
    IN  /\ ~Finished(t)
        /\ pc[t] = "crit"
        /\ Op(t).k = "send"
        /\ IF SendAdmits(L)
           THEN /\ chan' = [chan EXCEPT ![c] = [SendStore(L, CellOf(t)) EXCEPT
                                                         !.recv = WakeAfter(L.recv)]]
                /\ woken' = Advance(t, Invoke(woken, WakeInvoked(L.recv)), Some(0))
                /\ stale' = Unstale(c, "recv", WakeInvoked(L.recv))
                /\ ip' = [ip EXCEPT ![t] = NextIp(t, Some(0))]
                /\ polled' = [polled EXCEPT ![t] = FALSE]
                /\ sent' = [sent EXCEPT ![c] = Append(@, Op(t).v)]
                /\ ret' = [t |-> t, k |-> "send", c |-> c, r |-> "ready", v |-> None]
           ELSE /\ chan' = [chan EXCEPT ![c] = [L EXCEPT !.send = Register(L.send, WaiterId(c, t), t)]]
                /\ polled' = [polled EXCEPT ![t] = TRUE]
                /\ ret' = [t |-> t, k |-> "send", c |-> c, r |-> "pending", v |-> None]
                /\ UNCHANGED <<woken, stale, ip, sent>>
        /\ flag' = Release(c)
        /\ pc' = [pc EXCEPT ![t] = "idle"]
        /\ UNCHANGED <<reg, call, scen, rcvd, got, dropped>>

(* Channel::poll_internal (lib.rs 271-282): the closure and the release *)
PollInternal(t) ==
    LET c == Op(t).c
        L == chan[c]
    IN  /\ ~Finished(t)
        /\ pc[t] = "crit"
        /\ IF RecvAdmits(L)
           THEN /\ chan' = [chan EXCEPT ![c] = [RecvTake(L) EXCEPT
                                                         !.send = WakeAfter(L.send)]]
                /\ woken' = Advance(t, Invoke(woken, WakeInvoked(L.send)),
                                    Deliver(t, L.data[1]))
                /\ stale' = Unstale(c, "send", WakeInvoked(L.send))
                /\ ip' = [ip EXCEPT ![t] = NextIp(t, Deliver(t, L.data[1]))]
                /\ polled' = [polled EXCEPT ![t] = FALSE]
                /\ rcvd' = [rcvd EXCEPT ![c] = Append(@, L.data[1])]
                /\ got' = [got EXCEPT ![t] = Append(@, Deliver(t, L.data[1]))]
                /\ ret' = [t |-> t, k |-> Op(t).k, c |-> c, r |-> "ready",
                           v |-> Some(Deliver(t, L.data[1]))]
           ELSE /\ chan' = [chan EXCEPT ![c] = [L EXCEPT !.recv = Register(L.recv, WaiterId(c, t), t)]]
                /\ polled' = [polled EXCEPT ![t] = TRUE]
                /\ ret' = [t |-> t, k |-> Op(t).k, c |-> c, r |-> "pending", v |-> None]
                /\ UNCHANGED <<woken, stale, ip, rcvd, got>>
        /\ flag' = Release(c)
        /\ pc' = [pc EXCEPT ![t] = "idle"]
        /\ UNCHANGED <<reg, call, scen, sent, dropped>>

(* Channel::recv (lib.rs 259-261): poll_fn's closure calls poll_internal *)
RecvPoll(t) == ~Finished(t) /\ Op(t).k = "recv" /\ PollInternal(t)

(* Stream::poll_next for &Channel<Option<T>> (lib.rs 314-324): it calls    *)
(* poll_internal                                                           *)
StreamPoll(t) == ~Finished(t) /\ Op(t).k = "next" /\ PollInternal(t)

(* A drop that tries to deliver the value it still holds. *)
DropFlush(t) ==
    /\ ~Finished(t)
    /\ GateOpen(t)
    /\ pc[t] = "idle"
    /\ Op(t).drop
    /\ flag[Op(t).c] = FALSE
    /\ ip' = [ip EXCEPT ![t] = @ + 1]
    /\ polled' = [polled EXCEPT ![t] = FALSE]
    /\ woken' = [woken EXCEPT ![t] = ip[t] < Len(Prog(scen, t))]
    /\ dropped' = dropped \cup {<<t, ip[t], polled[t]>>}
    /\ chan' = [chan EXCEPT ![Op(t).c] =
                    IF @.data = None THEN [@ EXCEPT !.data = CellOf(t)] ELSE @]
    /\ UNCHANGED <<reg, call, scen, flag, pc, ret, sent, rcvd, got, stale>>

(* Dropping a future that has not completed.  Message has no Drop impl and *)
(* recv's poll_fn holds only a reference (lib.rs 253-261, 327): the value, *)
(* if any, goes away with the future and the channel is not touched.       *)
Drop(t) ==
    /\ ~Finished(t)
    /\ GateOpen(t)
    /\ pc[t] = "idle"
    /\ Op(t).drop
    /\ ip' = [ip EXCEPT ![t] = @ + 1]
    /\ polled' = [polled EXCEPT ![t] = FALSE]
    /\ woken' = [woken EXCEPT ![t] = ip[t] < Len(Prog(scen, t))]
    /\ dropped' = dropped \cup {<<t, ip[t], polled[t]>>}
    /\ stale' = IF polled[t] /\ t \in Held(Reg(Op(t).c, Op(t).k))
                THEN stale \cup {<<Op(t).c, Op(t).k, t>>}
                ELSE stale
    /\ UNCHANGED <<reg, call, scen, chan, flag, pc, ret, sent, rcvd, got>>

Next ==
    \E t \in Tasks :
        \/ PollWoken(t)
        \/ PollSpurious(t)
        \/ Acquire(t)
        \/ SpinFail(t)
        \/ SendPoll(t)
        \/ RecvPoll(t)
        \/ Drop(t)

Spec == Init /\ [][Next]_vars

(* Fair scheduling: a task is polled only when its waker was invoked (or   *)
(* for the first time), every such task is eventually polled, and every    *)
(* critical section ends.                                                  *)
FairNext ==
    \E t \in Tasks :
        \/ PollWoken(t)
        \/ Acquire(t)
        \/ SpinFail(t)
        \/ SendPoll(t)
        \/ RecvPoll(t)
        \/ Drop(t)

FairSpec ==
    /\ Init
    /\ [][FairNext]_vars
    /\ \A t \in Tasks : WF_vars(PollWoken(t))
    /\ \A t \in Tasks : WF_vars(Acquire(t))
    /\ \A t \in Tasks : WF_vars(SendPoll(t) \/ RecvPoll(t))

(* The same fairness when tasks may also be polled without a wake-up. *)
FairSpecAny ==
    /\ Init
    /\ [][Next]_vars
    /\ \A t \in Tasks : WF_vars(PollWoken(t))
    /\ \A t \in Tasks : SF_vars(Acquire(t))
    /\ \A t \in Tasks : WF_vars(SendPoll(t) \/ RecvPoll(t))

(* Calls made on one registry directly, one after another (each is made   *)
(* inside the spin cell), with any identifier and any waker.              *)

(* Wake::register(id, waker) (lib.rs 165-179) *)
WakeRegister(id, waker) ==
    /\ scen = "registry"
    /\ reg' = Register(reg, id, waker)
    /\ call' = [op |-> "register", id |-> id, waker |-> waker, fired |-> << >>,
                present |-> \E i \in 1..Len(Entries(reg)) : Entries(reg)[i][1] = id,
                fast |-> reg.wake # None]
    /\ UNCHANGED <<scen, chan, flag, pc, ip, woken, polled, ret, sent, rcvd, got,
                   dropped, stale>>

(* Wake::wake() (lib.rs 183-191) *)
WakeWake ==
    /\ scen = "registry"
    /\ reg' = WakeAfter(reg)
    /\ call' = [op |-> "wake", id |-> 0, waker |-> 0, fired |-> WakeInvoked(reg),
                present |-> FALSE, fast |-> reg.wake # None]
    /\ UNCHANGED <<scen, chan, flag, pc, ip, woken, polled, ret, sent, rcvd, got,
                   dropped, stale>>

RegNext ==
    \/ \E id \in Ids, waker \in Wakers : WakeRegister(id, waker)
    \/ WakeWake

RegSpec == RegInit /\ [][RegNext]_vars

(* The drivers with Option payloads, under the same fairness. *)
OptNext ==
    \E t \in Tasks :
        \/ PollWoken(t)
        \/ PollSpurious(t)
        \/ Acquire(t)
        \/ SpinFail(t)
        \/ SendPoll(t)
        \/ RecvPoll(t)
        \/ StreamPoll(t)

OptSpec ==
    /\ OptInit
    /\ [][OptNext]_vars
    /\ \A t \in Tasks : WF_vars(PollWoken(t))
    /\ \A t \in Tasks : SF_vars(Acquire(t))
    /\ \A t \in Tasks : WF_vars(SendPoll(t) \/ RecvPoll(t) \/ StreamPoll(t))

-----------------------------------------------------------------------------
(* Properties. *)

IsPrefix(a, b) == Len(a) <= Len(b) /\ \A i \in 1..Len(a) : a[i] = b[i]

NoRepeats(a) == \A i, j \in 1..Len(a) : i # j => a[i] # a[j]

\* the values the driver's send operations carry
ProgVals == {Prog(scen, t)[i].v : <<t, i>> \in
                {<<t, i>> \in Tasks \X (1..(NMsgs + NWait + 2)) :
                    i <= Len(Prog(scen, t)) /\ Prog(scen, t)[i].k = "send"}}

\* C1 (capacity one): on every channel the number of admitted sends minus
\* the number of completed receives is 0 or 1, and the slot holds Some
\* exactly when that difference is 1.
C1_CapacityOne ==
    \A c \in Chans :
        LET d == Len(sent[c]) - Len(rcvd[c])
        IN  /\ d \in {0, 1}
            /\ (chan[c].data # None) <=> (d = 1)

\* a second value is in transit after a first one was received
C1_Witness ==
    /\ Len(sent[1]) = 2
    /\ Len(rcvd[1]) = 1
    /\ chan[1].data # None

\* C2 (round trip): the received values, in completion order, are a prefix
\* of the admitted values, in admit order; the two sequences are equal when
\* the slot is empty and differ by exactly the value in the slot otherwise;
\* every admitted value is the value of one send of the program, admitted
\* once.
C2_RoundTrip ==
    \A c \in Chans :
        /\ IsPrefix(rcvd[c], sent[c])
        /\ sent[c] = rcvd[c] \o chan[c].data
        /\ NoRepeats(sent[c])
        /\ Range(sent[c]) \subseteq ProgVals

\* several values went through and every admitted send has been matched
C2_Witness ==
    /\ Len(rcvd[1]) >= 2
    /\ rcvd[1] = sent[1]
    /\ chan[1].data = None

\* the step admits a send (k = "send") or a receive (k = "recv") on channel c
AdmitStep(c, k) ==
    IF k = "send" THEN sent'[c] # sent[c] ELSE rcvd'[c] # rcvd[c]

Opposite(k) == IF k = "send" THEN "recv" ELSE "send"

\* every task has gone through its whole program
AllFinished == \A t \in Tasks : Finished(t)

\* C3 (rendezvous completion, one sender task and one receiver task, fair
\* scheduling): a parked task holds its waker in the registry of its
\* direction (no wake-up is lost), the next admit of the opposite direction
\* invokes that waker, and all NMsgs sends and NMsgs receives eventually
\* complete, the receiver having got the values in the order sent.
C3_NoLostWakeup ==
    scen = "pair" =>
        \A t \in Tasks : Parked(t) => t \in Held(Reg(Op(t).c, Op(t).k))

C3_WokenByAdmit ==
    \A t \in Tasks :
        (scen = "pair" /\ Parked(t) /\ AdmitStep(Op(t).c, Opposite(Op(t).k)))
            => woken'[t]

C3_Done ==
    /\ Finished(1)
    /\ Finished(2)
    /\ got[2] = [i \in 1..NMsgs |-> i]

\* C3: no wake-up is lost, a parked task is woken by the next opposite
\* admit, and every send and receive of the pair eventually completes.
C3_Rendezvous ==
    /\ []C3_NoLostWakeup
    /\ [][C3_WokenByAdmit]_vars
    /\ (scen = "pair") => <>C3_Done

\* the receiver parked, and the send that was admitted next has woken it
C3_Witness ==
    /\ scen = "pair"
    /\ ret.k = "send" /\ ret.r = "ready"
    /\ polled[2] /\ woken[2] /\ pc[2] = "idle"
    /\ chan[1].recv.wake = None
    /\ Len(sent[1]) = NMsgs

\* no task is inside a poll and no task is due for one: under fair
\* scheduling nothing more will happen
Quiescent ==
    \A t \in Tasks :
        /\ pc[t] = "idle"
        /\ Finished(t) \/ ~woken[t] \/ ~GateOpen(t)

\* C4 (multi-consumer fan-in): NWait tasks each receive once and a producer
\* sends NWait values; when nothing more can happen every receiver has
\* completed with exactly one value and every value was observed by exactly
\* one receiver.
C4_FanIn ==
    (scen = "fanin" /\ Quiescent) =>
        /\ AllFinished
        /\ \A t \in 2..(NWait + 1) : Len(got[t]) = 1
        /\ \A v \in 1..NWait :
              Cardinality({t \in 2..(NWait + 1) : got[t] = <<v>>}) = 1

\* C5 (multi-producer): NWait tasks each send once and one consumer receives
\* NWait times; when nothing more can happen every send has completed and
\* the consumer has received every one of the values.
C5_MultiProducer ==
    (scen = "multiprod" /\ Quiescent) =>
        /\ AllFinished
        /\ Len(got[NWait + 1]) = NWait
        /\ Range(got[NWait + 1]) = 1..NWait

\* C6 (multi-waiter wakeup): when two different tasks are parked on the same
\* channel in the same direction, the next admit of the opposite direction
\* invokes the wakers of both.
C6_BothWoken ==
    \A a, b \in Tasks :
        (/\ a # b
         /\ Parked(a) /\ Parked(b)
         /\ Op(a).c = Op(b).c /\ Op(a).k = Op(b).k
         /\ AdmitStep(Op(a).c, Opposite(Op(a).k)))
            => woken'[a] /\ woken'[b]

\* C6: every step wakes both of two tasks parked in the same direction when
\* it admits the opposite direction.
C6_MultiWaiterWakeup == [][C6_BothWoken]_vars

\* the values of the send futures that were dropped before completing
DroppedVals ==
    {Prog(scen, e[1])[e[2]].v :
        e \in {d \in dropped : Prog(scen, d[1])[d[2]].k = "send"}}

\* C7 (cancellation keeps the value out of the channel): the value of a send
\* future dropped before completion (never polled, or parked) is never in
\* the slot, never admitted and never returned by a receive; and dropping a
\* pending send or receive changes neither the slot nor either registry.
C7_ValueGone ==
    \A v \in DroppedVals :
        /\ \A c \in Chans :
              /\ chan[c].data # Some(v)
              /\ v \notin Range(sent[c])
              /\ v \notin Range(rcvd[c])
        /\ \A t \in Tasks : v \notin Range(got[t])

C7_DropStep == (dropped' # dropped) => (chan' = chan)

\* C7: a dropped send's value never reaches the channel, and no drop step
\* changes the slot or a registry.
C7_Cancellation == []C7_ValueGone /\ [][C7_DropStep]_vars

\* a send that had parked was dropped, and the receives that followed
\* returned the other two values
C7_Witness ==
    /\ scen = "cancelsend"
    /\ <<1, 2, TRUE>> \in dropped
    /\ got[3] = <<8, 10>>

\* C8 (liveness after cancellation): after a parked send or receive was
\* dropped, a later send by one task and the later receives by another all
\* complete under fair scheduling; and the waker the dropped future left
\* behind stays registered until the next admit of the opposite direction
\* invokes it.
C8_StaleKept ==
    \A e \in stale : e[3] \in Held(Reg(e[1], e[2]))

C8_LiveAfterDrop ==
    (scen \in {"cancelsend", "cancelrecv"}) =>
        [](Finished(1) => <>(Finished(2) /\ Finished(3)))

\* C8: the later operations complete, and the stale waker stays registered
\* until it is invoked.
C8_AfterCancel == C8_LiveAfterDrop /\ []C8_StaleKept

\* some poll returns in this step
PollReturns == \E t \in Tasks : pc[t] = "crit" /\ pc'[t] = "idle"

\* C9 as stated: a send on a channel no receiver is ever attached to reports
\* Pending on every poll and never completes.
C9_SendNeverCompletes ==
    scen = "sendonly" =>
        /\ sent[1] = << >>
        /\ ret.k = "send" => ret.r = "pending"

\* C9 (amended): on a channel no receiver is ever attached to, the first
\* send polled completes at that poll (the slot is None) and fills the slot
\* for good; every send poll after it reports Pending, so no other send
\* ever completes.
C9_SlotFilledOnce ==
    scen = "sendonly" =>
        /\ Len(sent[1]) <= 1
        /\ sent[1] = << >> => ret = NoRet
        /\ sent[1] # << >> => chan[1].data = Some(sent[1][1])

C9_LaterPollsPending ==
    (scen = "sendonly" /\ sent[1] # << >> /\ PollReturns) => ret'.r = "pending"

\* C9 (amended): with no receiver, exactly the first send polled completes
\* and every later send poll reports Pending.
C9_OnlyFirstSendCompletes ==
    []C9_SlotFilledOnce /\ [][C9_LaterPollsPending]_vars

\* one send was admitted and the sends of both tasks are parked behind it
C9_Witness ==
    /\ scen = "sendonly"
    /\ Len(sent[1]) = 1
    /\ Parked(1) /\ Parked(2)

\* C10 (send poll step): a send poll returns Ready only when the slot is
\* None, and then the slot holds its value, the receive registry has been
\* woken and emptied and the send registry is as before; when the slot is
\* Some it returns Pending, the slot and the receive registry are as before
\* and the send registry holds the caller's waker.
C10_SendStep ==
    \A t \in Tasks :
        (pc[t] = "crit" /\ pc'[t] = "idle" /\ Op(t).k = "send") =>
            LET c == Op(t).c
                L == chan[c]
                M == chan'[c]
            IN  /\ ret'.t = t /\ ret'.k = "send"
                /\ IF L.data = None
                   THEN /\ ret'.r = "ready"
                        /\ M.data = Some(Op(t).v)
                        /\ M.send = L.send
                        /\ Held(M.recv) = {}
                        /\ \A x \in Held(L.recv) : woken'[x]
                        /\ ip'[t] = ip[t] + 1
                   ELSE /\ ret'.r = "pending"
                        /\ M.data = L.data
                        /\ M.recv = L.recv
                        /\ t \in Held(M.send)
                        /\ ip'[t] = ip[t]

\* C10: every send poll step has the effect stated above.
C10_SendPollStep == [][C10_SendStep]_vars

\* a send poll found the slot full, returned Pending and left the caller's
\* waker in the fast slot of the send registry
C10_Witness ==
    /\ ret.k = "send" /\ ret.r = "pending"
    /\ pc[ret.t] = "idle"
    /\ chan[ret.c].data # None
    /\ chan[ret.c].send.wake = Some(ret.t)

\* C11 (receive poll step): a receive poll returns Ready(v) only when the
\* slot is Some(v), and then the slot is None, the send registry has been
\* woken and emptied and the receive registry is as before; when the slot
\* is None it returns Pending, the slot and the send registry are as before
\* and the receive registry holds the caller's waker.
C11_RecvStep ==
    \A t \in Tasks :
        (pc[t] = "crit" /\ pc'[t] = "idle" /\ Op(t).k = "recv") =>
            LET c == Op(t).c
                L == chan[c]
                M == chan'[c]
            IN  /\ ret'.t = t /\ ret'.k = "recv"
                /\ IF L.data # None
                   THEN /\ ret'.r = "ready"
                        /\ ret'.v = L.data
                        /\ got'[t] = Append(got[t], L.data[1])
                        /\ M.data = None
                        /\ M.recv = L.recv
                        /\ Held(M.send) = {}
                        /\ \A x \in Held(L.send) : woken'[x]
                        /\ ip'[t] = ip[t] + 1
                   ELSE /\ ret'.r = "pending"
                        /\ M.data = None
                        /\ M.send = L.send
                        /\ t \in Held(M.recv)
                        /\ ip'[t] = ip[t]

\* C11: every receive poll step has the effect stated above.
C11_RecvPollStep == [][C11_RecvStep]_vars

\* a receive poll found the slot full, took the value and woke the sender
\* that was parked behind it
C11_Witness ==
    /\ ret.k = "recv" /\ ret.r = "ready"
    /\ pc[ret.t] = "idle"
    /\ chan[ret.c].data = None
    /\ chan[ret.c].send = [WakeDefault EXCEPT !.chan = Uid(ret.c)]
    /\ \E x \in Tasks : x # ret.t /\ polled[x] /\ woken[x] /\ ~Finished(x)

\* the sums the tasker of the actor driver is owed, in order
Sums == [i \in 1..NAdds |-> AddArgs(i)[1] + AddArgs(i)[2]]

C12_Safe ==
    scen = "actor" =>
        /\ IsPrefix(got[1], Sums)
        /\ Len(got[1]) >= 1 => got[1][1] = 443
        /\ Finished(2) => /\ Len(sent[1]) = NAdds + 1
                          /\ got[2] = sent[1]
                          /\ got[2][Len(got[2])] = None
        /\ Quiescent => AllFinished

C12_Done == AllFinished /\ got[1] = Sums /\ sent[2] = Sums

\* C12 (addition actor of the crate's doc example, fair scheduling): the
\* tasker's receive on the reply channel returns 443 for Add(43, 400), the
\* worker leaves its loop only on the None the tasker sends last, no
\* interleaving stops with a task unfinished, and both tasks finish.
C12_AdditionActor == [](C12_Safe) /\ (scen = "actor" => <>C12_Done)

C12_Witness ==
    scen = "actor" /\ AllFinished /\ got[1][1] = 443 /\ ret.k = "recv" /\ ret.t = 2
    /\ ret.v = Some(None)

\* the items the producer of the stream driver sends before the None
Items == [i \in 1..NItems |-> i]

\* the elements the stream of task t has yielded
Yielded(t) ==
    LET s == SelectSeq(got[t], LAMBDA m : m # None)
    IN  [i \in 1..Len(s) |-> s[i][1]]

C13_Safe ==
    scen = "stream" =>
        /\ IsPrefix(got[2], sent[1])
        /\ IsPrefix(Yielded(2), Items)
        /\ Finished(2) <=> (got[2] # << >> /\ got[2][Len(got[2])] = None)
        /\ Finished(2) => Yielded(2) = Items

C13_Step ==
    \A t \in Tasks :
        (~Finished(t) /\ pc[t] = "crit" /\ pc'[t] = "idle" /\ Op(t).k = "next") =>
            LET c == Op(t).c
                L == chan[c]
                M == chan'[c]
            IN  /\ ret'.t = t
                /\ flag'[c] = FALSE
                /\ IF L.data # None
                   THEN /\ ret'.r = "ready"
                        /\ ret'.v = L.data
                        /\ got'[t] = Append(got[t], L.data[1])
                        /\ M.data = None
                        /\ M.recv = L.recv
                        /\ Held(M.send) = {}
                        /\ \A x \in Held(L.send) : woken'[x]
                   ELSE /\ ret'.r = "pending"
                        /\ M.data = None
                        /\ M.send = L.send
                        /\ t \in Held(M.recv)
                        /\ got'[t] = got[t]

C13_Done ==
    scen = "stream" => (AllFinished /\ Yielded(2) = Items /\ rcvd[1] = sent[1])

\* C13 (stream adapter): the stream yields x for each Some(x) it receives, in
\* the order sent, and ends on None, so Some(1), .., Some(NItems), None
\* yields 1, .., NItems and then ends; a poll of the stream changes the
\* channel as one receive poll does.
C13_StreamAdapter ==
    [](C13_Safe) /\ [][C13_Step]_vars /\ <>C13_Done

C13_Witness ==
    scen = "stream" /\ Finished(2) /\ Yielded(2) = Items /\ Len(Items) >= 2
    /\ ret.k = "next" /\ ret.v = Some(None)

\* how many times k occurs in the sequence s
Count(s, k) == Cardinality({i \in 1..Len(s) : s[i] = k})

\* the wakers of a sequence of entries
WakersOf(es) == [i \in 1..Len(es) |-> es[i][2]]

C14_WakeStep ==
    call'.op = "wake" =>
        /\ \A k \in Wakers :
              Count(call'.fired, k) = Count(WakersOf(Entries(reg)), k)
        /\ Len(call'.fired) = Len(Entries(reg))
        /\ reg'.wake = None
        /\ reg'.list = << >>

\* C14 (wake drains everything): whatever register and wake calls came
\* before, one wake call invokes the waker of every entry held (fast slot and
\* list) exactly once and leaves fast slot and list empty.
C14_WakeDrains ==
    [](call.op = "wake" => Entries(reg) = << >>) /\ [][C14_WakeStep]_vars

C14_Witness ==
    call.op = "wake" /\ ~call.fast /\ Len(call.fired) = NIds /\ reg.list = << >>
    /\ reg.wake = None

C15_OneEntryPerId ==
    \A i, j \in 1..Len(Entries(reg)) :
        i # j => Entries(reg)[i][1] # Entries(reg)[j][1]

C15_ReRegisterStep ==
    (call'.op = "register" /\ call'.present) =>
        /\ Len(Entries(reg')) = Len(Entries(reg))
        /\ \A i \in 1..Len(Entries(reg)) :
              IF Entries(reg)[i][1] = call'.id
              THEN Entries(reg')[i] = <<call'.id, call'.waker>>
              ELSE Entries(reg')[i] = Entries(reg)[i]

\* C15 (deduplication): the registry never holds two entries with one
\* identifier, fast slot and list counted together, and registering an
\* identifier that is held replaces that entry's waker and changes nothing else.
C15_Deduplication == [](C15_OneEntryPerId) /\ [][C15_ReRegisterStep]_vars

C15_Witness ==
    /\ call.op = "register" /\ call.present
    /\ Len(reg.list) = NIds
    /\ reg.list[1] = <<call.id, call.waker>>
    /\ \E i \in 2..Len(reg.list) : reg.list[i][2] # call.waker

C18_Exclusive == reg.wake # None => reg.list = << >>

C18_EarlyReturnStep ==
    (call'.op = "wake" /\ call'.fast) =>
        /\ reg.list = << >>
        /\ Held(reg') = {}
        /\ call'.fired = <<reg.wake[1]>>

\* C18 (fast slot and list never populated together): an occupied fast slot
\* implies an empty list in every state reached by register and wake calls
\* with any identifiers, so the early return of wake leaves no waker unwoken.
C18_FastOrList == [](C18_Exclusive) /\ [][C18_EarlyReturnStep]_vars

C18_Witness ==
    call.op = "wake" /\ call.fast /\ Len(call.fired) = 1 /\ Held(reg) = {}
    /\ reg.chan \in Ids

\* the tasks that run the closure of channel c's spin cell
InCrit(c) == {t \in Tasks : pc[t] = "crit" /\ Op(t).c = c}

C16_Exclusive ==
    \A c \in Chans :
        /\ Cardinality(InCrit(c)) <= 1
        /\ flag[c] <=> InCrit(c) # {}

C16_AccessStep ==
    \A c \in Chans :
        chan'[c] # chan[c] =>
            /\ flag[c]
            /\ \E t \in Tasks : InCrit(c) = {t} /\ pc'[t] = "idle"

\* C16 (mutual exclusion of the spin cell): at most one task runs the closure
\* of a channel at a time, the flag is set exactly while one does, and the
\* slot and the registries change only in a step of that task.
C16_MutualExclusion == [](C16_Exclusive) /\ [][C16_AccessStep]_vars

C16_Witness ==
    \E c \in Chans, t, u, x \in Tasks :
        /\ InCrit(c) = {t}
        /\ u # x
        /\ pc[u] = "spin" /\ Op(u).c = c
        /\ pc[x] = "spin" /\ Op(x).c = c

C17_ReleaseStep ==
    \A t \in Tasks :
        (pc[t] = "crit" /\ pc'[t] # "crit") =>
            pc'[t] = "idle" /\ flag'[Op(t).c] = FALSE

\* C17 (progress of the spin cell, fair scheduling): every critical section
\* ends with the flag stored false; no flag stays held for ever, no task
\* stays in the compare-exchange loop for ever (it leaves the loop only by
\* acquiring the flag), and no poll stays inside Spin::with for ever.
C17_SpinProgress ==
    /\ [][C17_ReleaseStep]_vars
    /\ \A c \in Chans : []<>(~flag[c])
    /\ \A t \in Tasks : []<>(pc[t] # "spin")
    /\ \A t \in Tasks : []<>(pc[t] = "idle")

C17_Witness ==
    /\ ret.k # "none"
    /\ pc[ret.t] = "idle"
    /\ flag[ret.c] = FALSE
    /\ \E u \in Tasks : u # ret.t /\ pc[u] = "spin" /\ Op(u).c = ret.c

C19_OneWaker ==
    \A c \in Chans : \A w \in {chan[c].send, chan[c].recv} :
        /\ w.list = << >>
        /\ Cardinality(Held(w)) <= 1
        /\ w.wake # None => w.chan = Uid(c)

C19_ReplaceStep ==
    \A t \in Tasks :
        (pc[t] = "crit" /\ pc'[t] = "idle" /\ ret'.r = "pending" /\ ret'.t = t) =>
            LET c == Op(t).c
                w == IF Op(t).k = "send" THEN chan[c].send ELSE chan[c].recv
                x == IF Op(t).k = "send" THEN chan'[c].send ELSE chan'[c].recv
            IN  /\ Held(x) = {t}
                /\ Len(Entries(x)) = 1
                /\ Entries(x)[1][1] = Uid(c)

\* C19 (one waiter identifier per channel): every registration uses the
\* channel's identifier, so each registry of a channel holds at most one waker
\* and no list, and a pending poll's registration replaces the waker an
\* earlier pending operation of the same direction left, another task's too.
C19_SameWaiterId == [](C19_OneWaker) /\ [][C19_ReplaceStep]_vars

C19_Witness ==
    /\ ret.r = "pending"
    /\ Held(Reg(ret.c, ret.k)) = {ret.t}
    /\ \E u \in Tasks :
          /\ u # ret.t
          /\ Parked(u)
          /\ Op(u).c = ret.c /\ Op(u).k = ret.k
          /\ Parked(ret.t)

=============================================================================
